---- MODULE Spec2Model ----
(***************************************************************************)
(* A model of the arbeitszeit work-time ledger.  Both implementations of   *)
(* the engine are modelled: src/arbeitszeit/main.py (variant "main", the   *)
(* pydantic models behind the typer commands) and src/vanilla.py (variant  *)
(* "vanilla", plain classes).  Texts are sequences of one-character        *)
(* strings, so that formatting, parsing and the regular expressions are    *)
(* computed character by character.                                        *)
(***************************************************************************)
EXTENDS Integers, Sequences, FiniteSets, TLC

\* ------------------------------------------------------------------------
\* Bounds of the model
\* ------------------------------------------------------------------------

\* The commands start and end are run at most this many times.
MaxOps == 2

\* The ledger file found at the beginning holds at most this many lines.
MaxFileLines == 2

\* The wall clock advances at most this many times.
MaxTicks == 2

\* ------------------------------------------------------------------------
\* Characters and texts
\* ------------------------------------------------------------------------

Digits == <<"0","1","2","3","4","5","6","7","8","9">>

IsDigit(c) == \E i \in 1..Len(Digits) : Digits[i] = c

DigitVal(c) == (CHOOSE i \in 1..Len(Digits) : Digits[i] = c) - 1

AllDigits(s) == \A i \in 1..Len(s) : IsDigit(s[i])

RECURSIVE NumVal(_)
NumVal(s) == IF Len(s) = 0 THEN 0
             ELSE 10 * NumVal(SubSeq(s, 1, Len(s) - 1)) + DigitVal(s[Len(s)])

\* "{n:02}" and "%H", "%M", "%m", "%d" of strftime, for 0 <= n <= 99
Pad2(n) == <<Digits[(n \div 10) + 1], Digits[(n % 10) + 1]>>

\* "%Y" of strftime for the years 1000..9999
Pad4(n) == Pad2(n \div 100) \o Pad2(n % 100)

UpperLetters == {"A","B","C","D","E","F","G","H","I","J","K","L","M","N","O","P","Q","R","S","T","U","V","W","X","Y","Z"}

LowerLetters == {"a","b","c","d","e","f","g","h","i","j","k","l","m","n","o","p","q","r","s","t","u","v","w","x","y","z"}

\* the character class [A-z ]: the range A-z also holds the six characters
\* between Z and a; "grave" stands for the grave accent, which a TLA+ string
\* cannot hold
DayClass == UpperLetters \cup LowerLetters \cup {"[","\\","]","^","_","grave"} \cup {" "}

Drop(s, n) == SubSeq(s, n + 1, Len(s))

\* str.split(sep) for a one-character separator
RECURSIVE Split(_, _)
Split(s, sep) ==
    IF \A i \in 1..Len(s) : s[i] # sep THEN <<s>>
    ELSE LET k == CHOOSE i \in 1..Len(s) : s[i] = sep /\ \A j \in 1..(i - 1) : s[j] # sep
         IN  <<SubSeq(s, 1, k - 1)>> \o Split(Drop(s, k), sep)

\* sep.join(parts)
RECURSIVE Join(_, _)
Join(parts, sep) ==
    IF Len(parts) = 0 THEN <<>>
    ELSE IF Len(parts) = 1 THEN parts[1]
    ELSE parts[1] \o sep \o Join(Tail(parts), sep)

\* ------------------------------------------------------------------------
\* Values
\* ------------------------------------------------------------------------

None == [kind |-> "none"]

\* a datetime.time; s is the part below the minute (seconds, microseconds)
Time(h, m, s) == [kind |-> "time", h |-> h, m |-> m, s |-> s]

\* a str
Str(text) == [kind |-> "str", text |-> text]

\* a datetime.date, and a datetime.datetime at midnight
Date(y, m, d) == [kind |-> "date", y |-> y, m |-> m, d |-> d]

DateTime(y, m, d) == [kind |-> "datetime", y |-> y, m |-> m, d |-> d]

Err(exc) == [kind |-> "error", exc |-> exc]

IsErr(x) == x.kind = "error"

IsNone(x) == x.kind = "none"

\* ------------------------------------------------------------------------
\* CONSTS
\* ------------------------------------------------------------------------

NONE_TIME == <<"-","-",":","-","-">>

\* the text "{NONE_TIME}": TIME_REGEX of main.py is no f-string, so the
\* braces and the name stay in the pattern as literal characters
NONE_TIME_LITERAL == <<"{","N","O","N","E","_","T","I","M","E","}">>

\* [0-9]{2}:[0-9]{2} at position i of text
MatchHHMM(text, i) ==
    /\ Len(text) >= i + 4
    /\ IsDigit(text[i]) /\ IsDigit(text[i + 1])
    /\ text[i + 2] = ":"
    /\ IsDigit(text[i + 3]) /\ IsDigit(text[i + 4])

\* the literal lit at position i of text
MatchLit(text, i, lit) ==
    /\ Len(text) >= i + Len(lit) - 1
    /\ SubSeq(text, i, i + Len(lit) - 1) = lit

\* [0-9]{4}-[0-9]{2}-[0-9]{2} at position i of text
REGEX_DATE(text, i) ==
    /\ Len(text) >= i + 9
    /\ \A k \in {0, 1, 2, 3, 5, 6, 8, 9} : IsDigit(text[i + k])
    /\ text[i + 4] = "-" /\ text[i + 7] = "-"

\* [A-z ]{3} at position i of text
REGEX_DAY(text, i) ==
    /\ Len(text) >= i + 2
    /\ \A k \in {0, 1, 2} : text[i + k] \in DayClass

\* ([0-9]{2}:[0-9]{2}|--:--) at position i of text (vanilla.py)
REGEX_TIME(text, i) == MatchHHMM(text, i) \/ MatchLit(text, i, NONE_TIME)

\* [A-z ]{3} [0-9]{4}-[0-9]{2}-[0-9]{2} at position i of text (main.py)
DATE_REGEX(text, i) ==
    /\ REGEX_DAY(text, i)
    /\ MatchLit(text, i + 3, <<" ">>)
    /\ REGEX_DATE(text, i + 4)

\* ------------------------------------------------------------------------
\* UTILS
\* ------------------------------------------------------------------------

\* re.match anchors the pattern at the start of the text only.  In main.py
\* the alternation of TIME_REGEX is not parenthesised: the pattern is
\* "[0-9]{2}:[0-9]{2}" or the literal "{NONE_TIME}".
is_time(v, text) ==
    IF v = "main"
    THEN MatchHHMM(text, 1) \/ MatchLit(text, 1, NONE_TIME_LITERAL)
    ELSE REGEX_TIME(text, 1)

\* In main.py the pattern "<DATE_REGEX> <TIME_REGEX> <TIME_REGEX>" is an
\* alternation of three: date and first time; "{NONE_TIME} " and a time;
\* "{NONE_TIME}".
is_record(v, text) ==
    IF v = "main"
    THEN \/ /\ DATE_REGEX(text, 1)
            /\ MatchLit(text, 15, <<" ">>)
            /\ MatchHHMM(text, 16)
         \/ /\ MatchLit(text, 1, NONE_TIME_LITERAL \o <<" ">>)
            /\ MatchHHMM(text, Len(NONE_TIME_LITERAL) + 2)
         \/ MatchLit(text, 1, NONE_TIME_LITERAL)
    ELSE /\ REGEX_DAY(text, 1)
         /\ MatchLit(text, 4, <<" ">>)
         /\ REGEX_DATE(text, 5)
         /\ MatchLit(text, 15, <<" ">>)
         /\ REGEX_TIME(text, 16)
         /\ MatchLit(text, 21, <<" ">>)
         /\ REGEX_TIME(text, 22)

IsLeap(y) == y % 4 = 0 /\ (y % 100 # 0 \/ y % 400 = 0)

DaysInMonth(y, m) ==
    IF m = 2 THEN (IF IsLeap(y) THEN 29 ELSE 28)
    ELSE IF m \in {4, 6, 9, 11} THEN 30 ELSE 31

RECURSIVE DaysBeforeMonth(_, _)
DaysBeforeMonth(y, m) ==
    IF m = 1 THEN 0 ELSE DaysBeforeMonth(y, m - 1) + DaysInMonth(y, m - 1)

\* date.toordinal()
ToOrdinal(d) ==
    LET y1 == d.y - 1
    IN  y1 * 365 + (y1 \div 4) - (y1 \div 100) + (y1 \div 400)
        + DaysBeforeMonth(d.y, d.m) + d.d

\* date.weekday(): Monday is 0
Weekday(d) == (ToOrdinal(d) + 6) % 7

DayNames == << <<"M","o","n">>, <<"T","u","e">>, <<"W","e","d">>, <<"T","h","u">>,
               <<"F","r","i">>, <<"S","a","t">>, <<"S","u","n">> >>

\* a run of one or two digits, as %H, %M, %m and %d of strptime take it
OneOrTwoDigits(s) == Len(s) \in {1, 2} /\ AllDigits(s)

\* datetime.strptime(text, "%Y-%m-%d"), for a text without blanks: a
\* datetime at midnight, not a date
text_to_date(text) ==
    LET p == Split(text, "-")
    IN  IF /\ Len(p) = 3
           /\ Len(p[1]) = 4 /\ AllDigits(p[1])
           /\ OneOrTwoDigits(p[2]) /\ OneOrTwoDigits(p[3])
           /\ NumVal(p[1]) >= 1
           /\ NumVal(p[2]) \in 1..12
           /\ NumVal(p[3]) >= 1
           /\ NumVal(p[3]) <= DaysInMonth(NumVal(p[1]), NumVal(p[2]))
        THEN DateTime(NumVal(p[1]), NumVal(p[2]), NumVal(p[3]))
        ELSE Err("ValueError")

\* date.strftime("%a %Y-%m-%d"), for the years 1000..9999
date_to_text(d) ==
    DayNames[Weekday(d) + 1] \o <<" ">> \o Pad4(d.y) \o <<"-">> \o Pad2(d.m)
        \o <<"-">> \o Pad2(d.d)

\* datetime.strptime(text, "%H:%M").time()
text_to_time(text) ==
    IF text = NONE_TIME THEN None
    ELSE LET p == Split(text, ":")
         IN  IF /\ Len(p) = 2
                /\ OneOrTwoDigits(p[1]) /\ OneOrTwoDigits(p[2])
                /\ NumVal(p[1]) <= 23
                /\ NumVal(p[2]) <= 59
             THEN Time(NumVal(p[1]), NumVal(p[2]), 0)
             ELSE Err("ValueError")

\* time.strftime("%H:%M") as a str; a str has no strftime
time_to_text(t) ==
    IF IsNone(t) THEN Str(NONE_TIME)
    ELSE IF t.kind = "time" THEN Str(Pad2(t.h) \o <<":">> \o Pad2(t.m))
    ELSE Err("AttributeError")

\* a datetime.timedelta, in seconds
TimeDelta(secs) == [kind |-> "timedelta", secs |-> secs]

\* dt.timedelta(hours=time.hour, minutes=time.minute) of the parsed text
text_to_timedelta(text) ==
    LET t == text_to_time(text)
    IN  IF IsNone(t) \/ IsErr(t) THEN t
        ELSE TimeDelta(t.h * 3600 + t.m * 60)

\* sum(timedeltas, dt.timedelta())
RECURSIVE sum_timedeltas(_)
sum_timedeltas(ts) ==
    IF Len(ts) = 0 THEN TimeDelta(0)
    ELSE TimeDelta(ts[1].secs + sum_timedeltas(Tail(ts)).secs)

\* ------------------------------------------------------------------------
\* MODEL
\* ------------------------------------------------------------------------

\* start > end of two datetime.time values
TimeGT(a, b) ==
    \/ a.h > b.h
    \/ a.h = b.h /\ a.m > b.m
    \/ a.h = b.h /\ a.m = b.m /\ a.s > b.s

\* What pydantic makes of a value given for a field of type Optional[time]
\* when a model is constructed: a time stays, a str "HH:MM" or "HH:MM:SS"
\* is parsed (forms with a zone suffix are not among the texts of the model).
PydTime(x) ==
    IF x.kind \in {"none", "time"} THEN x
    ELSE LET t == x.text
         IN  IF /\ MatchHHMM(t, 1)
                /\ NumVal(SubSeq(t, 1, 2)) <= 23
                /\ NumVal(SubSeq(t, 4, 5)) <= 59
                /\ \/ Len(t) = 5
                   \/ /\ Len(t) = 8 /\ t[6] = ":" /\ AllDigits(SubSeq(t, 7, 8))
                      /\ NumVal(SubSeq(t, 7, 8)) <= 59
             THEN Time(NumVal(SubSeq(t, 1, 2)), NumVal(SubSeq(t, 4, 5)),
                       IF Len(t) = 8 THEN NumVal(SubSeq(t, 7, 8)) ELSE 0)
             ELSE Err("ValidationError")

\* What pydantic makes of a value given for a field of type date: a
\* datetime at midnight becomes the date.
PydDate(x) == IF x.kind = "datetime" THEN Date(x.y, x.m, x.d) ELSE x

\* The constructor of Record with its validation.  td is today(); a day of
\* None takes it.  main.py: the pydantic model with its two validators;
\* vanilla.py: the two asserts of __init__, the values stored as given.
Record(v, td, day, start, end) ==
    IF v = "main"
    THEN LET d == IF IsNone(day) THEN td ELSE PydDate(day)
             s == PydTime(start)
             e == PydTime(end)
         IN  IF IsErr(s) \/ IsErr(e) THEN Err("ValidationError")
             ELSE IF IsNone(s) /\ IsNone(e) THEN Err("ValidationError")
             ELSE IF ~IsNone(s) /\ ~IsNone(e) /\ TimeGT(s, e) THEN Err("ValidationError")
             ELSE [kind |-> "record", day |-> d, start |-> s, end |-> e]
    ELSE IF IsNone(start) /\ IsNone(end) THEN Err("AssertionError")
         ELSE IF ~IsNone(start) /\ ~IsNone(end) /\ (start.kind # "time" \/ end.kind # "time")
              THEN Err("TypeError")
         ELSE IF ~IsNone(start) /\ ~IsNone(end) /\ TimeGT(start, end) THEN Err("AssertionError")
         ELSE [kind |-> "record", day |-> IF IsNone(day) THEN td ELSE day,
               start |-> start, end |-> end]

\* Record.from_text
from_text(v, td, text) ==
    IF ~is_record(v, text) THEN Err("AssertionError")
    ELSE LET p == Split(Drop(text, 4), " ")
         IN  IF Len(p) # 3 THEN Err("ValueError")
             ELSE LET day   == text_to_date(p[1])
                      start == text_to_time(p[2])
                      end   == text_to_time(p[3])
                  IN  IF IsErr(day) \/ IsErr(start) \/ IsErr(end) THEN Err("ValueError")
                      ELSE Record(v, td, day, start, end)

\* Record.worktime
RecordWorktime(r) ==
    IF IsNone(r.start) \/ IsNone(r.end) THEN None
    ELSE IF r.start.kind # "time" \/ r.end.kind # "time" THEN Err("TypeError")
    ELSE TimeDelta((r.end.h * 3600 + r.end.m * 60 + r.end.s)
                   - (r.start.h * 3600 + r.start.m * 60 + r.start.s))

\* Record.text
RecordText(r) ==
    LET start == time_to_text(r.start)
        end   == time_to_text(r.end)
    IN  IF IsErr(start) THEN start
        ELSE IF IsErr(end) THEN end
        ELSE Str(date_to_text(r.day) \o <<" ">> \o start.text \o <<" ">> \o end.text)


\* "None in xs"
NoneIn(xs) == \E i \in 1..Len(xs) : IsNone(xs[i])

AnyErr(xs) == \E i \in 1..Len(xs) : IsErr(xs[i])

\* Day.from_record
DayFromRecord(record, baseline) ==
    [kind |-> "day", day |-> record.day, baseline |-> baseline, records |-> <<record>>]

\* Day.worktime
DayWorktime(day) ==
    LET worktimes == [i \in 1..Len(day.records) |-> RecordWorktime(day.records[i])]
    IN  IF AnyErr(worktimes) THEN Err("TypeError")
        ELSE IF NoneIn(worktimes) THEN None
        ELSE sum_timedeltas(worktimes)

\* Day.delta with the difference the wrong way round
DayDelta_BaselineMinusWorktime(v, day) ==
    LET worktime == DayWorktime(day)
    IN  IF IsErr(worktime) \/ IsNone(worktime) THEN worktime
        ELSE TimeDelta(day.baseline.secs - worktime.secs)

\* Day.delta: -(baseline - worktime) in main.py, worktime - reference in
\* vanilla.py
DayDelta(v, day) ==
    LET worktime == DayWorktime(day)
    IN  IF IsErr(worktime) \/ IsNone(worktime) THEN worktime
        ELSE IF v = "main" THEN TimeDelta(0 - (day.baseline.secs - worktime.secs))
        ELSE TimeDelta(worktime.secs - day.baseline.secs)

\* The Monday of ISO week 1 of year y, as an ordinal
IsoWeek1Monday(y) ==
    LET firstday     == ToOrdinal(Date(y, 1, 1))
        firstweekday == (firstday + 6) % 7
        week1monday  == firstday - firstweekday
    IN  IF firstweekday > 3 THEN week1monday + 7 ELSE week1monday

\* Day.week: the ISO (year, week) of date.isocalendar()
DayWeek(day) ==
    LET y     == day.day.y
        today == ToOrdinal(day.day)
        week  == (today - IsoWeek1Monday(y)) \div 7
    IN  IF week < 0
        THEN [y |-> y - 1, w |-> ((today - IsoWeek1Monday(y - 1)) \div 7) + 1]
        ELSE IF week >= 52 /\ today >= IsoWeek1Monday(y + 1)
        THEN [y |-> y + 1, w |-> 1]
        ELSE [y |-> y, w |-> week + 1]

\* Week.from_day
WeekFromDay(day) == [kind |-> "week", week |-> DayWeek(day), days |-> <<day>>]

\* Week.worktime that leaves out the Days without a worktime
WeekWorktime_SkippingUndefined(week) ==
    LET worktimes == [i \in 1..Len(week.days) |-> DayWorktime(week.days[i])]
    IN  IF AnyErr(worktimes) THEN Err("TypeError")
        ELSE sum_timedeltas(SelectSeq(worktimes, LAMBDA w : ~IsNone(w)))

\* Week.worktime
WeekWorktime(week) ==
    LET worktimes == [i \in 1..Len(week.days) |-> DayWorktime(week.days[i])]
    IN  IF AnyErr(worktimes) THEN Err("TypeError")
        ELSE IF NoneIn(worktimes) THEN None
        ELSE sum_timedeltas(worktimes)

\* Week.delta
WeekDelta(v, week) ==
    LET deltas == [i \in 1..Len(week.days) |-> DayDelta(v, week.days[i])]
    IN  IF AnyErr(deltas) THEN Err("TypeError")
        ELSE IF NoneIn(deltas) THEN None
        ELSE sum_timedeltas(deltas)

\* ------------------------------------------------------------------------
\* DB
\* ------------------------------------------------------------------------

NoFile == [kind |-> "nofile"]

File(content) == [kind |-> "file", content |-> content]

\* file.readlines() with the newline of each line removed
ReadLines(content) ==
    LET p == Split(content, "\n")
    IN  IF p[Len(p)] = <<>> THEN SubSeq(p, 1, Len(p) - 1) ELSE p

\* lines.index(line)
ListIndex(lines, line) ==
    (CHOOSE i \in 1..Len(lines) : lines[i] = line /\ \A j \in 1..(i - 1) : lines[j] # line) - 1

\* The loop of DB.load over the lines from position i on, acc the records
\* so far.  An exception ends the load: main.py raises it again as it is (the
\* message with the line number after the raise is never printed); vanilla.py
\* catches an AssertionError alone, prints the line's index and exits.
RECURSIVE LoadLines(_, _, _, _, _)
LoadLines(v, td, lines, i, acc) ==
    IF i > Len(lines) THEN [kind |-> "loaded", records |-> acc]
    ELSE LET r == from_text(v, td, lines[i])
         IN  IF ~IsErr(r) THEN LoadLines(v, td, lines, i + 1, Append(acc, r))
             ELSE IF v = "vanilla" /\ r.exc = "AssertionError"
             THEN [kind |-> "error", exc |-> "SystemExit",
                   reported |-> TRUE, index |-> ListIndex(lines, lines[i])]
             ELSE [kind |-> "error", exc |-> r.exc, reported |-> FALSE, index |-> 0 - 1]

\* DB.load
DB_load(v, td, f) ==
    IF f.kind = "nofile" THEN [kind |-> "loaded", records |-> <<>>]
    ELSE LoadLines(v, td, ReadLines(f.content), 1, <<>>)

\* DB.save: open(path, "w") empties the file before the texts are computed,
\* so an exception of Record.text leaves an empty file behind
DB_save(recs) ==
    LET texts == [i \in 1..Len(recs) |-> RecordText(recs[i])]
    IN  IF AnyErr(texts)
        THEN [file |-> File(<<>>), exc |-> "AttributeError"]
        ELSE [file |-> File(Join([i \in 1..Len(texts) |-> texts[i].text], <<"\n">>)),
              exc |-> "none"]

\* DB.empty
DB_empty(recs) == Len(recs) = 0

\* DB.last
DB_last(recs) == recs[Len(recs)]

\* One step of the loop of DB.days: the dict keeps its keys in the order
\* of their first insertion
DaysAdd(days, record, baseline) ==
    IF \E i \in 1..Len(days) : days[i].day = record.day
    THEN LET i == CHOOSE k \in 1..Len(days) : days[k].day = record.day
         IN  [days EXCEPT ![i].records = Append(@, record)]
    ELSE Append(days, DayFromRecord(record, baseline))

\* DB.days
RECURSIVE DB_days(_, _)
DB_days(recs, baseline) ==
    IF Len(recs) = 0 THEN <<>>
    ELSE DaysAdd(DB_days(SubSeq(recs, 1, Len(recs) - 1), baseline), recs[Len(recs)], baseline)

\* One step of the loop of DB.weeks
WeeksAdd(weeks, day) ==
    IF \E i \in 1..Len(weeks) : weeks[i].week = DayWeek(day)
    THEN LET i == CHOOSE k \in 1..Len(weeks) : weeks[k].week = DayWeek(day)
         IN  [weeks EXCEPT ![i].days = Append(@, day)]
    ELSE Append(weeks, WeekFromDay(day))

RECURSIVE WeeksOf(_)
WeeksOf(days) ==
    IF Len(days) = 0 THEN <<>>
    ELSE WeeksAdd(WeeksOf(SubSeq(days, 1, Len(days) - 1)), days[Len(days)])

\* DB.weeks
DB_weeks(recs, baseline) == WeeksOf(DB_days(recs, baseline))

\* DB.start that reuses a last record still open instead of appending
DB_start_Merging(v, td, recs, f, time) ==
    LET r == Record(v, td, None, time, None)
    IN  IF IsErr(r) THEN [records |-> recs, file |-> f, exc |-> r.exc]
        ELSE LET recs2 == IF ~DB_empty(recs) /\ IsNone(DB_last(recs).end)
                          THEN [recs EXCEPT ![Len(recs)] = r]
                          ELSE Append(recs, r)
                 saved == DB_save(recs2)
             IN  [records |-> recs2, file |-> saved.file, exc |-> saved.exc]

\* DB.start
DB_start(v, td, recs, f, time) ==
    LET r == Record(v, td, None, time, None)
    IN  IF IsErr(r) THEN [records |-> recs, file |-> f, exc |-> r.exc]
        ELSE LET saved == DB_save(Append(recs, r))
             IN  [records |-> Append(recs, r), file |-> saved.file, exc |-> saved.exc]

\* DB.end that never looks at the last record and always appends
DB_end_Appending(v, td, recs, f, time) ==
    LET r == Record(v, td, None, None, time)
    IN  IF IsErr(r) THEN [records |-> recs, file |-> f, exc |-> r.exc]
        ELSE LET saved == DB_save(Append(recs, r))
             IN  [records |-> Append(recs, r), file |-> saved.file, exc |-> saved.exc]

\* DB.end of main.py, DB.stop of vanilla.py: the assignment to last.end is
\* not validated (the pydantic model does not validate assignments)
DB_end(v, td, recs, f, time) ==
    IF DB_empty(recs) \/ ~IsNone(DB_last(recs).end)
    THEN LET r == Record(v, td, None, None, time)
         IN  IF IsErr(r) THEN [records |-> recs, file |-> f, exc |-> r.exc]
             ELSE LET saved == DB_save(Append(recs, r))
                  IN  [records |-> Append(recs, r), file |-> saved.file, exc |-> saved.exc]
    ELSE LET recs2 == [recs EXCEPT ![Len(recs)].end = time]
             saved == DB_save(recs2)
         IN  [records |-> recs2, file |-> saved.file, exc |-> saved.exc]


\* ------------------------------------------------------------------------
\* APP
\* ------------------------------------------------------------------------

\* The default of the configured daily worktime, "08:00"
DefaultWorktime == <<"0","8",":","0","0">>

\* Config.worktime of main.py, WORKTIME of vanilla.py
Baseline == text_to_timedelta(DefaultWorktime)

\* The command start: an omitted time (None) is now(), a given text must
\* pass is_time; then DB.start.  nw is now().  recs and f are the records and
\* the file of the DB the command works on (loaded by the action Load).
start(v, td, nw, recs, f, arg) ==
    IF ~IsNone(arg) /\ ~is_time(v, arg.text)
    THEN [records |-> recs, file |-> f, exc |-> "AssertionError"]
    ELSE DB_start(v, td, recs, f, IF IsNone(arg) THEN nw ELSE arg)

\* The command end of main.py, stop of vanilla.py
end(v, td, nw, recs, f, arg) ==
    IF ~IsNone(arg) /\ ~is_time(v, arg.text)
    THEN [records |-> recs, file |-> f, exc |-> "AssertionError"]
    ELSE DB_end(v, td, recs, f, IF IsNone(arg) THEN nw ELSE arg)

\* ------------------------------------------------------------------------
\* The environment: the wall clock, the command line, the ledger file
\* ------------------------------------------------------------------------

\* now() in the morning and in the evening; the clock has a part below the
\* minute
Morning == Time(8, 0, 0)

Evening == Time(17, 0, 30)

FirstDay == Date(2024, 1, 15)

NextDay(d) ==
    IF d.d < DaysInMonth(d.y, d.m) THEN Date(d.y, d.m, d.d + 1)
    ELSE IF d.m < 12 THEN Date(d.y, d.m + 1, 1)
    ELSE Date(d.y + 1, 1, 1)

\* The time texts given on the command line: a valid time, the sentinel, a
\* time out of range, a malformed text
ArgTexts ==
    { <<"0","9",":","0","0">>, NONE_TIME, <<"2","5",":","0","0">>, <<"9",":","0","0">> }

\* None is the omitted argument
Args == {None} \cup {Str(t) : t \in ArgTexts}

\* The lines of a ledger file written with an editor: a closed record, an open
\* record, a record with an end only, a record that ends before it starts,
\* a line that is no record
EditLines ==
    { <<"M","o","n"," ","2","0","2","4","-","0","1","-","1","5"," ","0","9",":","0","0"," ","1","7",":","3","0">>,
      <<"T","u","e"," ","2","0","2","4","-","0","1","-","1","6"," ","0","8",":","0","0"," ","-","-",":","-","-">>,
      <<"M","o","n"," ","2","0","2","4","-","0","1","-","2","2"," ","-","-",":","-","-"," ","1","7",":","0","0">>,
      <<"M","o","n"," ","2","0","2","4","-","0","1","-","1","5"," ","1","7",":","0","0"," ","0","9",":","0","0">>,
      <<"g","a","r","b","a","g","e">> }

\* The ledger files written with an editor (the command edit): up to
\* MaxFileLines lines, each ended by a newline
EditFiles ==
    { Join(ls, <<"\n">>) \o (IF Len(ls) = 0 THEN <<>> ELSE <<"\n">>) :
        ls \in UNION { [1..k -> EditLines] : k \in 0..MaxFileLines } }

\* ------------------------------------------------------------------------
\* State
\* ------------------------------------------------------------------------

VARIABLES
    variant,  \* "main": src/arbeitszeit/main.py, "vanilla": src/vanilla.py
    file,     \* the ledger file: NoFile or File(content)
    pc,       \* "idle": no process; "ready": a DB is loaded; "crashed": the
              \* process ended with an exception
    records,  \* DB.records of the process (kept as they were at a crash)
    today,    \* today()
    now,      \* now()
    ticks,    \* how often the clock advanced
    ops,      \* how often start or end was run
    last      \* the last step: operation, argument, exception, and the
              \* records, the file and the clock before it

vars == <<variant, file, pc, records, today, now, ticks, ops, last>>

Step(op, arg, exc, reported, index) ==
    [op |-> op, arg |-> arg, exc |-> exc, pre |-> records, preFile |-> file,
     now |-> now, reported |-> reported, index |-> index]

Quiet(op) ==
    [op |-> op, arg |-> None, exc |-> "none", pre |-> <<>>, preFile |-> NoFile,
     now |-> None, reported |-> FALSE, index |-> 0 - 1]

Init ==
    /\ variant \in {"main", "vanilla"}
    /\ file \in {NoFile} \cup {File(c) : c \in EditFiles}
    /\ pc = "idle"
    /\ records = <<>>
    /\ today = FirstDay
    /\ now = Morning
    /\ ticks = 0
    /\ ops = 0
    /\ last = Quiet("init")

\* DB(config): a process starts and loads the ledger
Load ==
    /\ pc \in {"idle", "crashed"}
    /\ \E r \in {DB_load(variant, today, file)} :
           /\ pc' = IF IsErr(r) THEN "crashed" ELSE "ready"
           /\ records' = IF IsErr(r) THEN <<>> ELSE r.records
           /\ last' = IF IsErr(r)
                      THEN [Step("load", None, r.exc, r.reported, r.index) EXCEPT !.pre = <<>>]
                      ELSE [Step("load", None, "none", FALSE, 0 - 1) EXCEPT !.pre = <<>>]
    /\ UNCHANGED <<variant, file, today, now, ticks, ops>>

\* The command start
Start(arg) ==
    /\ pc = "ready"
    /\ ops < MaxOps
    /\ ops' = ops + 1
    /\ \E r \in {start(variant, today, now, records, file, arg)} :
           /\ records' = r.records
           /\ file' = r.file
           /\ pc' = IF r.exc = "none" THEN "ready" ELSE "crashed"
           /\ last' = Step("start", arg, r.exc, FALSE, 0 - 1)
    /\ UNCHANGED <<variant, today, now, ticks>>

\* The command end (stop)
End(arg) ==
    /\ pc = "ready"
    /\ ops < MaxOps
    /\ ops' = ops + 1
    /\ \E r \in {end(variant, today, now, records, file, arg)} :
           /\ records' = r.records
           /\ file' = r.file
           /\ pc' = IF r.exc = "none" THEN "ready" ELSE "crashed"
           /\ last' = Step("end", arg, r.exc, FALSE, 0 - 1)
    /\ UNCHANGED <<variant, today, now, ticks>>

\* The process ends
Exit ==
    /\ pc = "ready"
    /\ pc' = "idle"
    /\ records' = <<>>
    /\ last' = Quiet("exit")
    /\ UNCHANGED <<variant, file, today, now, ticks, ops>>

\* Time passes between two runs of the program (a run is short against the
\* step of the clock): from the morning to the evening, from the evening to
\* the next morning
Tick ==
    /\ pc \in {"idle", "crashed"}
    /\ ticks < MaxTicks
    /\ ticks' = ticks + 1
    /\ IF now = Morning
       THEN now' = Evening /\ today' = today
       ELSE now' = Morning /\ today' = NextDay(today)
    /\ UNCHANGED <<variant, file, pc, records, ops, last>>

Next ==
    \/ Load
    \/ \E arg \in Args : Start(arg)
    \/ \E arg \in Args : End(arg)
    \/ Exit
    \/ Tick

Spec == Init /\ [][Next]_vars


\* ------------------------------------------------------------------------
\* Notions of the specification used to state the claims
\* ------------------------------------------------------------------------

\* A time text HH:MM of the 24-hour clock, zero-padded, not the sentinel
ValidTimeText(text) ==
    /\ Len(text) = 5
    /\ MatchHHMM(text, 1)
    /\ NumVal(SubSeq(text, 1, 2)) <= 23
    /\ NumVal(SubSeq(text, 4, 5)) <= 59

\* The argument of a command is omitted or a valid time text
ValidArg(arg) == IsNone(arg) \/ ValidTimeText(arg.text)

\* The time a stored value stands for: a time is itself, a str is the time
\* it spells
Denote(x) == IF x.kind = "str" THEN text_to_time(x.text) ELSE x

\* The time t that a command run with a valid argument is about
TimeOfStep(step) == IF IsNone(step.arg) THEN step.now ELSE Denote(step.arg)

\* lastIsOpen of the specification
LastIsOpen(recs) == Len(recs) > 0 /\ IsNone(recs[Len(recs)].end)

\* ------------------------------------------------------------------------
\* Claims
\* ------------------------------------------------------------------------

\* C1: for every ledger state (empty, last record closed, last record open)
\* and every valid time t, start(t) appends exactly one record whose start
\* is t and whose end is absent; the records before it stay as they were and
\* where they were, and afterwards the last record is open.
C1_StartAppends ==
    (last.op = "start" /\ ValidArg(last.arg)) =>
        /\ Len(records) = Len(last.pre) + 1
        /\ SubSeq(records, 1, Len(last.pre)) = last.pre
        /\ Denote(records[Len(records)].start) = TimeOfStep(last)
        /\ IsNone(records[Len(records)].end)
        /\ LastIsOpen(records)

\* A start with a valid time has run on a ledger whose last record was open,
\* and that record is still there, still open, before the new one.
C1_Witness ==
    /\ last.op = "start" /\ ValidArg(last.arg)
    /\ LastIsOpen(last.pre)
    /\ Len(records) = Len(last.pre) + 1
    /\ IsNone(records[Len(records) - 1].end)

\* C2: for every valid time t, end(t) appends one record with an end only
\* when the ledger is empty or its last record is closed, and otherwise sets
\* the end of the last record in place, its day and start and the number of
\* records unchanged; the other records stay as they were, and afterwards
\* the last record is not open.
C2_EndClosesOrAppends ==
    (last.op = "end" /\ ValidArg(last.arg)) =>
        /\ IF LastIsOpen(last.pre)
           THEN /\ Len(records) = Len(last.pre)
                /\ records[Len(records)].day = last.pre[Len(last.pre)].day
                /\ records[Len(records)].start = last.pre[Len(last.pre)].start
                /\ SubSeq(records, 1, Len(records) - 1)
                       = SubSeq(last.pre, 1, Len(last.pre) - 1)
           ELSE /\ Len(records) = Len(last.pre) + 1
                /\ IsNone(records[Len(records)].start)
                /\ SubSeq(records, 1, Len(last.pre)) = last.pre
        /\ Denote(records[Len(records)].end) = TimeOfStep(last)
        /\ ~LastIsOpen(records)

\* An end with a valid time has closed an open record in place, behind an
\* earlier record.
C2_Witness ==
    /\ last.op = "end" /\ ValidArg(last.arg)
    /\ LastIsOpen(last.pre)
    /\ Len(last.pre) >= 2
    /\ Len(records) = Len(last.pre)
    /\ ~IsNone(records[Len(records)].end)


\* C3: invariant I2 holds in every reachable ledger: after any sequence of
\* start and end on a ledger loaded successfully, every record with both
\* start and end has start <= end; an end that would close the open last
\* record with a time before its start fails and stores nothing.
C3_StartNotAfterEnd ==
    /\ pc = "ready" =>
           \A i \in 1..Len(records) :
               (~IsNone(records[i].start) /\ ~IsNone(records[i].end))
                   => ~TimeGT(records[i].start, records[i].end)
    /\ ( /\ last.op = "end" /\ ValidArg(last.arg)
         /\ LastIsOpen(last.pre)
         /\ TimeGT(last.pre[Len(last.pre)].start, TimeOfStep(last)) )
       => (last.exc # "none" /\ records = last.pre)

\* C4: after every start or end run with an omitted time or a valid time
\* text, the command completes and the ledger file holds the text line of
\* every record in memory, in order, joined by newlines, so that a load of
\* the file returns as many records in the same order.
C4_SavedInFull ==
    (last.op \in {"start", "end"} /\ ValidArg(last.arg)) =>
        /\ last.exc = "none"
        /\ \A i \in 1..Len(records) : ~IsErr(RecordText(records[i]))
        /\ file = File(Join([i \in 1..Len(records) |-> RecordText(records[i]).text], <<"\n">>))
        /\ \E loaded \in {DB_load(variant, today, file)} :
               /\ ~IsErr(loaded)
               /\ Len(loaded.records) = Len(records)
               /\ \A i \in 1..Len(records) :
                      RecordText(loaded.records[i]) = RecordText(records[i])

\* C5: start and end run with a time text that is malformed or the sentinel
\* fail, and the failing call leaves the ledger as it was: no record appended
\* or amended in memory, the file neither emptied nor partly written.
C5_FailureLeavesLedger ==
    (last.op \in {"start", "end"} /\ ~ValidArg(last.arg)) =>
        /\ last.exc # "none"
        /\ records = last.pre
        /\ file = last.preFile

\* The record grammar of the specification: <Day> YYYY-MM-DD <time> <time>,
\* the fields separated by single blanks, a time HH:MM or the sentinel
SpecIsRecordText(line) ==
    /\ Len(line) = 26
    /\ \A k \in 1..3 : line[k] \in UpperLetters \cup LowerLetters
    /\ line[4] = " " /\ REGEX_DATE(line, 5)
    /\ line[15] = " " /\ REGEX_TIME(line, 16)
    /\ line[21] = " " /\ REGEX_TIME(line, 22)

\* A line of the grammar whose date and times exist and that satisfies I1
\* (a start or an end) and I2 (start <= end)
SpecValidLine(line) ==
    /\ SpecIsRecordText(line)
    /\ LET d == text_to_date(SubSeq(line, 5, 14))
           s == text_to_time(SubSeq(line, 16, 20))
           e == text_to_time(SubSeq(line, 22, 26))
       IN  /\ ~IsErr(d) /\ ~IsErr(s) /\ ~IsErr(e)
           /\ ~(IsNone(s) /\ IsNone(e))
           /\ (~IsNone(s) /\ ~IsNone(e)) => ~TimeGT(s, e)

\* The lines of the file that the last step found
LinesBefore == IF last.preFile.kind = "nofile" THEN <<>> ELSE ReadLines(last.preFile.content)

\* C6: load is all-or-nothing: either every line is a valid record line and
\* load returns one record per line in the order of the file, or load ends
\* at the first invalid line with an error that names the 0-based index of
\* that line, and returns no records.
C6_LoadAllOrNothing ==
    last.op = "load" =>
        IF \A i \in 1..Len(LinesBefore) : SpecValidLine(LinesBefore[i])
        THEN /\ last.exc = "none"
             /\ Len(records) = Len(LinesBefore)
             /\ \A i \in 1..Len(records) :
                    Drop(RecordText(records[i]).text, 3) = Drop(LinesBefore[i], 3)
        ELSE /\ last.exc # "none"
             /\ records = <<>>
             /\ last.reported
             /\ last.index + 1 \in 1..Len(LinesBefore)
             /\ ~SpecValidLine(LinesBefore[last.index + 1])
             /\ \A j \in 1..last.index : SpecValidLine(LinesBefore[j])

\* C7: for every record the ledger holds (read from a line, or made by
\* start or end, also with the time of the clock), from_text of its text is
\* the record again: the same day, start and end.
C7_RoundTrip ==
    pc = "ready" =>
        \A i \in 1..Len(records) :
            \E back \in {from_text(variant, today, RecordText(records[i]).text)} :
                /\ ~IsErr(back)
                /\ back.day = records[i].day
                /\ back.start = records[i].start
                /\ back.end = records[i].end

\* The calendar date of a day, whatever the type of the value
CalDate(d) == <<d.y, d.m, d.d>>

\* The first position in the ledger of a record of calendar date c
FirstPos(recs, c) ==
    CHOOSE i \in 1..Len(recs) :
        /\ CalDate(recs[i].day) = c
        /\ \A j \in 1..(i - 1) : CalDate(recs[j].day) # c

\* The records of calendar date c, in the order of the ledger
OnDate(recs, c) == SelectSeq(recs, LAMBDA r : CalDate(r.day) = c)

\* C8: the days view is a stable partition of the ledger by calendar date:
\* one Day per date, the Days in the order in which their dates first appear,
\* every record in the Day of its date, the records of a Day in the order of
\* the ledger; the weeks view of main.py groups the Days by ISO week in the
\* same way.
C8_StablePartition ==
    pc = "ready" =>
        LET days  == DB_days(records, Baseline)
            weeks == DB_weeks(records, Baseline)
        IN  /\ \A i \in 1..Len(records) :
                   \E k \in 1..Len(days) : CalDate(days[k].day) = CalDate(records[i].day)
            /\ \A k \in 1..Len(days) :
                   /\ days[k].records = OnDate(records, CalDate(days[k].day))
                   /\ \A i \in 1..Len(days[k].records) : days[k].records[i].day = days[k].day
            /\ \A k, l \in 1..Len(days) :
                   k < l => FirstPos(records, CalDate(days[k].day))
                                < FirstPos(records, CalDate(days[l].day))
            /\ variant = "main" =>
                   /\ \A k \in 1..Len(days) :
                          \E w \in 1..Len(weeks) : weeks[w].week = DayWeek(days[k])
                   /\ \A w \in 1..Len(weeks) :
                          weeks[w].days = SelectSeq(days, LAMBDA d : DayWeek(d) = weeks[w].week)
                   /\ \A v, w \in 1..Len(weeks) :
                          v < w =>
                              (CHOOSE k \in 1..Len(days) :
                                   /\ DayWeek(days[k]) = weeks[v].week
                                   /\ \A j \in 1..(k - 1) : DayWeek(days[j]) # weeks[v].week)
                              < (CHOOSE k \in 1..Len(days) :
                                   /\ DayWeek(days[k]) = weeks[w].week
                                   /\ \A j \in 1..(k - 1) : DayWeek(days[j]) # weeks[w].week)


\* A record has both its start and its end
Complete(r) == ~IsNone(r.start) /\ ~IsNone(r.end)

\* The seconds of a time since midnight
SecondsOf(t) == t.h * 3600 + t.m * 60 + t.s

\* The sum of end - start over complete records, in seconds
RECURSIVE SumSpans(_)
SumSpans(recs) ==
    IF Len(recs) = 0 THEN 0
    ELSE (SecondsOf(recs[1].end) - SecondsOf(recs[1].start)) + SumSpans(Tail(recs))

\* C9: the worktime of a Day is defined iff every record of the Day has both
\* start and end, and is then the sum of end - start over its records; its
\* delta is defined iff the worktime is, and is then worktime - baseline, a
\* signed duration; one open or half record leaves both undefined.
C9_DayWorktimeAndDelta ==
    pc = "ready" =>
        \A day \in { DB_days(records, Baseline)[k] : k \in 1..Len(DB_days(records, Baseline)) } :
            \E worktime \in {DayWorktime(day)}, delta \in {DayDelta(variant, day)} :
                IF \A i \in 1..Len(day.records) : Complete(day.records[i])
                THEN /\ worktime = TimeDelta(SumSpans(day.records))
                     /\ delta = TimeDelta(SumSpans(day.records) - Baseline.secs)
                ELSE IsNone(worktime) /\ IsNone(delta)

\* A Day worked less than the baseline, with a negative delta, beside a Day
\* that an open record leaves without worktime and delta.
C9_Witness ==
    /\ pc = "ready"
    /\ \E k, l \in 1..Len(DB_days(records, Baseline)) :
           LET days == DB_days(records, Baseline)
           IN  /\ \A i \in 1..Len(days[k].records) : Complete(days[k].records[i])
               /\ DayDelta(variant, days[k]).secs < 0
               /\ \E i \in 1..Len(days[l].records) : IsNone(days[l].records[i].end)
               /\ IsNone(DayWorktime(days[l]))
               /\ IsNone(DayDelta(variant, days[l]))

\* The sum of the worktimes of Days that all have one, in seconds
RECURSIVE SumDayWorktimes(_)
SumDayWorktimes(days) ==
    IF Len(days) = 0 THEN 0
    ELSE DayWorktime(days[1]).secs + SumDayWorktimes(Tail(days))

\* The sum of the deltas of Days that all have one, in seconds
RECURSIVE SumDayDeltas(_, _)
SumDayDeltas(v, days) ==
    IF Len(days) = 0 THEN 0
    ELSE DayDelta(v, days[1]).secs + SumDayDeltas(v, Tail(days))

\* C10: the worktime and the delta of a Week are undefined if the worktime
\* of any of its Days is undefined, whatever the other Days are; otherwise
\* they are the sums of the worktimes and of the deltas of its Days, so that
\* the delta is the worktime minus the baseline for every Day.
C10_WeekTotals ==
    (pc = "ready" /\ variant = "main") =>
        \A week \in { DB_weeks(records, Baseline)[k] : k \in 1..Len(DB_weeks(records, Baseline)) } :
            \E worktime \in {WeekWorktime(week)}, delta \in {WeekDelta(variant, week)} :
                IF \E d \in 1..Len(week.days) : IsNone(DayWorktime(week.days[d]))
                THEN IsNone(worktime) /\ IsNone(delta)
                ELSE /\ worktime = TimeDelta(SumDayWorktimes(week.days))
                     /\ delta = TimeDelta(SumDayDeltas(variant, week.days))
                     /\ delta = TimeDelta(worktime.secs - Len(week.days) * Baseline.secs)

\* A Week of two Days, one with a worktime and one without, and so without
\* totals.
C10_Witness ==
    /\ pc = "ready" /\ variant = "main"
    /\ \E k \in 1..Len(DB_weeks(records, Baseline)) :
           LET week == DB_weeks(records, Baseline)[k]
           IN  /\ Len(week.days) >= 2
               /\ \E d \in 1..Len(week.days) : ~IsNone(DayWorktime(week.days[d]))
               /\ \E d \in 1..Len(week.days) : IsNone(DayWorktime(week.days[d]))
               /\ IsNone(WeekWorktime(week))
               /\ IsNone(WeekDelta(variant, week))


\* ------------------------------------------------------------------------
\* Formatting of durations
\* ------------------------------------------------------------------------

\* The durations given to timedelta_to_text are whole minutes up to this
\* many (50 hours: more than two days, and more than a week of work).
MaxMinutes == 3000

\* A week total is taken over at most this many days of work.
MaxWeekDays == 5

\* timedelta.seconds: a timedelta is kept as days, seconds and microseconds
\* with 0 <= seconds < 86400, and seconds is that field alone
TimedeltaSeconds(t) == t.secs % 86400

\* timedelta_to_text (the same text in main.py and vanilla.py)
timedelta_to_text(t) ==
    IF IsNone(t) THEN NONE_TIME
    ELSE LET hours   == TimedeltaSeconds(t) \div 3600
             minutes == (TimedeltaSeconds(t) \div 60) % 60
         IN  Pad2(hours) \o <<":">> \o Pad2(minutes)

\* The worktime in the first line of Week.__str__
WeekWorktimeText(week) == timedelta_to_text(WeekWorktime(week))

\* The durations formatted: none, and every whole minute up to MaxMinutes
Durations == {None} \cup {TimeDelta(60 * m) : m \in 0..MaxMinutes}

\* A ledger of n days of work in one week from FirstDay on, a Monday: one
\* closed record 09:00..17:30 a day
RECURSIVE WorkDays(_, _)
WorkDays(d, n) ==
    IF n = 0 THEN <<>>
    ELSE <<[kind |-> "record", day |-> d, start |-> Time(9, 0, 0), end |-> Time(17, 30, 0)]>>
         \o WorkDays(NextDay(d), n - 1)

\* What a formatting step leaves in last: the duration and its text
Shown(op, t, text) == [op |-> op, arg |-> t, out |-> text]

FormatInit ==
    /\ variant \in {"main", "vanilla"}
    /\ file = NoFile
    /\ pc = "idle"
    /\ records = <<>>
    /\ today = FirstDay
    /\ now = Morning
    /\ ticks = 0
    /\ ops = 0
    /\ last = Quiet("init")

\* timedelta_to_text is applied to a duration
Format(t) ==
    /\ pc = "idle"
    /\ pc' = "shown"
    /\ last' = Shown("timedelta_to_text", t, timedelta_to_text(t))
    /\ UNCHANGED <<variant, file, records, today, now, ticks, ops>>

\* The command log of main.py prints the Week of a ledger of n days of work
Log(n) ==
    /\ pc = "idle"
    /\ variant = "main"
    /\ pc' = "shown"
    /\ records' = WorkDays(FirstDay, n)
    /\ \E week \in {DB_weeks(WorkDays(FirstDay, n), Baseline)[1]} :
           last' = Shown("log", WeekWorktime(week), WeekWorktimeText(week))
    /\ UNCHANGED <<variant, file, today, now, ticks, ops>>

FormatNext ==
    \/ \E t \in Durations : Format(t)
    \/ \E n \in 1..MaxWeekDays : Log(n)

FormatSpec == FormatInit /\ [][FormatNext]_vars

\* The decimal digits of a natural number
RECURSIVE Decimal(_)
Decimal(n) == IF n < 10 THEN <<Digits[n + 1]>> ELSE Decimal(n \div 10) \o <<Digits[(n % 10) + 1]>>

\* A natural number in at least two digits
TwoOrMoreDigits(n) == IF n < 10 THEN <<"0">> \o Decimal(n) ELSE Decimal(n)

\* C11: the text of a duration d of whole minutes, d >= 0, is HH:MM with HH
\* the whole hours of d (d div 60 minutes, not wrapped at 24, no days left
\* out) and MM the minutes left (d mod 60 minutes); the text of an absent
\* duration is the sentinel.  This holds for a Week total as well.
C11_FormatDuration ==
    (pc = "shown" /\ last.op \in {"timedelta_to_text", "log"}) =>
        IF IsNone(last.arg) THEN last.out = NONE_TIME
        ELSE last.out = TwoOrMoreDigits((last.arg.secs \div 60) \div 60)
                            \o <<":">> \o Pad2((last.arg.secs \div 60) % 60)

====
